---- MODULE Spec2Model ----
(***************************************************************************)
(* Busca em largura e em profundidade (Busca.buscar) sobre o quebra-cabeca *)
(* 3x3 (QuebraCabeca) de busca_sem_com_informacao.py.                      *)
(*                                                                         *)
(* Uma tabela e' uma funcao [0..2 -> [0..2 -> Nat]] (indices como no       *)
(* codigo).  Os objetos Nodo vivem numa arena `nodos`, na ordem em que sao *)
(* construidos; uma referencia a um Nodo e' o seu indice na arena e 0 faz  *)
(* as vezes de None.                                                       *)
(***************************************************************************)
EXTENDS Integers, Sequences, FiniteSets, TLC

VARIABLES inicio, pc, tipo_busca, mostrar, nodos, borda, explorado,
          nodo_atual, resultado, saida, visitados, anterior

vars == <<inicio, pc, tipo_busca, mostrar, nodos, borda, explorado,
          nodo_atual, resultado, saida, visitados, anterior>>

-----------------------------------------------------------------------------
(* Limites do modelo *)

\* numero maximo de movimentos que separam um estado inicial de um quadrado magico
MaxScramble == 2

\* numero maximo de iteracoes do laco `while borda` numa execucao de buscar
MaxPops == 75

-----------------------------------------------------------------------------
(* QuebraCabeca *)

tamanho == 3

Idx == 0 .. (tamanho - 1)

\* tabela escrita como lista de linhas (literal Python) -> funcao indexada de 0
Tab(linhas) == [i \in Idx |-> [j \in Idx |-> linhas[i + 1][j + 1]]]

\* itertools.product(range(tamanho), range(tamanho)), na ordem de enumeracao
Celulas == [k \in 1 .. (tamanho * tamanho) |->
              <<(k - 1) \div tamanho, (k - 1) % tamanho>>]

\* QuebraCabeca.__iter__: os numeros da tabela, linha a linha
Iter(tabela) == [k \in 1 .. (tamanho * tamanho) |->
                   tabela[Celulas[k][1]][Celulas[k][2]]]

Digito == <<"0", "1", "2", "3", "4", "5", "6", "7", "8", "9">>

\* str(int) para naturais
RECURSIVE str_int(_)
str_int(n) == IF n < 10 THEN Digito[n + 1]
              ELSE str_int(n \div 10) \o Digito[(n % 10) + 1]

RECURSIVE Join(_, _)
Join(s, k) == IF k > Len(s) THEN "" ELSE str_int(s[k]) \o Join(s, k + 1)

\* QuebraCabeca.__str__: ''.join(map(str, self))
str(tabela) == Join(Iter(tabela), 1)

\* variante de Somas que deixa de fora as diagonais
SomasSemDiagonais(tabela) ==
    {tabela[0][j] + tabela[1][j] + tabela[2][j] : j \in Idx}
      \cup {tabela[i][0] + tabela[i][1] + tabela[i][2] : i \in Idx}

\* somas de colunas, de linhas, e das duas diagonais (np.unique devolve o
\* conjunto dos valores distintos)
Somas(tabela) ==
    {tabela[0][j] + tabela[1][j] + tabela[2][j] : j \in Idx}
      \cup {tabela[i][0] + tabela[i][1] + tabela[i][2] : i \in Idx}
      \cup {tabela[0][0] + tabela[1][1] + tabela[2][2],
            tabela[2][0] + tabela[1][1] + tabela[0][2]}

\* QuebraCabeca.objetivo: (len(x) == 1) and (x[0] == 15)
objetivo(tabela) ==
    LET x == Somas(tabela)
    IN  Cardinality(x) = 1 /\ (CHOOSE v \in x : TRUE) = 15

\* variante de direcoes com os rotulos '1 Cima' e '2 Baixo' trocados
direcoesTrocadas(i, j) == << [acao |-> "2 Baixo",    l |-> i + 1, c |-> j],
                             [acao |-> "1 Cima",     l |-> i - 1, c |-> j],
                             [acao |-> "3 Esquerda", l |-> i, c |-> j + 1],
                             [acao |-> "4 Direita",  l |-> i, c |-> j - 1] >>

\* variante de direcoes em que duas direcoes levam o mesmo rotulo
direcoesRepetidas(i, j) == << [acao |-> "1 Cima",     l |-> i + 1, c |-> j],
                              [acao |-> "2 Baixo",    l |-> i - 1, c |-> j],
                              [acao |-> "3 Esquerda", l |-> i, c |-> j + 1],
                              [acao |-> "3 Esquerda", l |-> i, c |-> j - 1] >>

\* o dicionario `direcoes` da celula (i, j), na ordem de insercao
direcoes(i, j) == << [acao |-> "1 Cima",     l |-> i + 1, c |-> j],
                     [acao |-> "2 Baixo",    l |-> i - 1, c |-> j],
                     [acao |-> "3 Esquerda", l |-> i,     c |-> j + 1],
                     [acao |-> "4 Direita",  l |-> i,     c |-> j - 1] >>

\* os movimentos que a celula (i, j) acrescenta a conj_movimentos
RECURSIVE MovimentosDe(_, _, _, _)
MovimentosDe(tabela, i, j, d) ==
    IF d > Len(direcoes(i, j)) THEN << >>
    ELSE LET e == direcoes(i, j)[d]
             resto == MovimentosDe(tabela, i, j, d + 1)
         IN  IF e.l >= 0 /\ e.c >= 0 /\ e.l < tamanho /\ e.c < tamanho
                /\ tabela[e.l][e.c] = 9
             THEN << [origem |-> <<i, j>>, destino |-> <<e.l, e.c>>,
                      acao |-> e.acao] >> \o resto
             ELSE resto

RECURSIVE AcoesDesde(_, _)
AcoesDesde(tabela, k) ==
    IF k > Len(Celulas) THEN << >>
    ELSE MovimentosDe(tabela, Celulas[k][1], Celulas[k][2], 1)
           \o AcoesDesde(tabela, k + 1)

\* QuebraCabeca.acoes: lista de (movimento, acao); o movimento adiado
\* (lambda) e' representado pelos seus argumentos (origem, destino)
acoes(tabela) == AcoesDesde(tabela, 1)

\* QuebraCabeca.copiar: tabela nova, linha a linha
copiar(tabela) == [i \in DOMAIN tabela |-> [j \in DOMAIN tabela[i] |-> tabela[i][j]]]

\* QuebraCabeca.mover: troca, na copia, os conteudos de origem e destino
mover(tabela, origem, destino) ==
    LET copia == copiar(tabela)
        i == origem[1]
        j == origem[2]
        r == destino[1]
        c == destino[2]
        a == copia[r][c]
        b == copia[i][j]
        passo1 == [copia EXCEPT ![i][j] = a]
    IN  [passo1 EXCEPT ![r][c] = b]

\* As mesmas operacoes sobre objetos: `mem` e' a memoria das listas-linha (o
\* endereco de uma linha e' o seu indice em mem) e `obj` e' a lista externa
\* self.tabela de um QuebraCabeca, que guarda os enderecos das suas linhas.
Valor(mem, obj) == [i \in Idx |-> mem[obj[i]]]

\* variante de copiar que reaproveita as linhas da origem (copia rasa)
copiarRaso(mem, obj) == [mem |-> mem, obj |-> obj]

\* QuebraCabeca.copiar: cada `[x for x in lin]` e' uma lista-linha nova
copiarObj(mem, obj) ==
    [mem |-> mem \o [i \in 1 .. tamanho |-> [j \in Idx |-> mem[obj[i - 1]][j]]],
     obj |-> [i \in Idx |-> Len(mem) + i + 1]]

\* QuebraCabeca.mover: a troca e' feita nas linhas da copia
moverObj(mem, obj, origem, destino) ==
    LET copia == copiarObj(mem, obj)
        i == origem[1]
        j == origem[2]
        r == destino[1]
        c == destino[2]
        a == copia.mem[copia.obj[r]][c]
        b == copia.mem[copia.obj[i]][j]
        passo1 == [copia.mem EXCEPT ![copia.obj[i]][j] = a]
    IN  [mem |-> [passo1 EXCEPT ![copia.obj[r]][c] = b], obj |-> copia.obj]

\* ordem das cadeias de acao usada por sorted(key=lambda x: x[1]): as quatro
\* cadeias diferem no primeiro caractere
Prioridade(acao) == CASE acao = "1 Cima"     -> 1
                      [] acao = "2 Baixo"    -> 2
                      [] acao = "3 Esquerda" -> 3
                      [] acao = "4 Direita"  -> 4

ComPrioridade(movs, p) == SelectSeq(movs, LAMBDA m : Prioridade(m.acao) = p)

\* sorted(movs, key=lambda x: x[1]): ordenacao estavel crescente
sorted(movs) ==
    ComPrioridade(movs, 1) \o ComPrioridade(movs, 2)
      \o ComPrioridade(movs, 3) \o ComPrioridade(movs, 4)

\* variante da ordenacao da busca em profundidade sem reverse=True
sorted_sem_reverse(movs) ==
    ComPrioridade(movs, 1) \o ComPrioridade(movs, 2)
      \o ComPrioridade(movs, 3) \o ComPrioridade(movs, 4)

\* sorted(movs, key=lambda x: x[1], reverse=True): decrescente, ainda estavel
sorted_reverse(movs) ==
    ComPrioridade(movs, 4) \o ComPrioridade(movs, 3)
      \o ComPrioridade(movs, 2) \o ComPrioridade(movs, 1)

-----------------------------------------------------------------------------
(* Nodo *)

\* Nodo.__init__ com acao=None: a acao passa a ser "Z"
NodoRaiz(estado) == [estado |-> estado, pai |-> 0, acao |-> "Z"]

\* Nodo.__init__ com pai e acao dados
Nodo(estado, pai, acao) == [estado |-> estado, pai |-> pai, acao |-> acao]

\* o laco `while nodo` de caminho_: do nodo ate' a raiz
RECURSIVE Subida(_, _)
Subida(nd, n) == IF n = 0 THEN << >> ELSE <<n>> \o Subida(nd, nd[n].pai)

Reverso(s) == [k \in 1 .. Len(s) |-> s[Len(s) + 1 - k]]

\* variante de caminho_ cujo laco para ao chegar 'a raiz (`while nodo.pai`)
caminhoSemRaiz(nd, n) == Tail(Reverso(Subida(nd, n)))

\* variante de caminho_ sem reversed: do nodo para a raiz
caminhoSemReversed(nd, n) == Subida(nd, n)

\* Nodo.caminho_: reversed(caminho)
caminho_(nd, n) == Reverso(Subida(nd, n))

-----------------------------------------------------------------------------
(* Estados iniciais *)

\* estado_inicial de main
EstadoInicial == Tab(<< <<6, 9, 8>>, <<7, 1, 3>>, <<2, 5, 4>> >>)

LoShu == Tab(<< <<8, 1, 6>>, <<3, 5, 7>>, <<4, 9, 2>> >>)

Girar(t) == [i \in Idx |-> [j \in Idx |-> t[tamanho - 1 - j][i]]]
Espelhar(t) == [i \in Idx |-> [j \in Idx |-> t[i][tamanho - 1 - j]]]

\* os oito quadrados magicos de 1..9 (rotacoes e reflexoes do Lo Shu)
Magicos ==
    LET r1 == Girar(LoShu)
        r2 == Girar(r1)
        r3 == Girar(r2)
    IN  {LoShu, r1, r2, r3,
         Espelhar(LoShu), Espelhar(r1), Espelhar(r2), Espelhar(r3)}

Sucessores(t) ==
    LET a == acoes(t)
    IN  {mover(t, a[k].origem, a[k].destino) : k \in 1 .. Len(a)}

\* estados a no maximo n movimentos de algum estado de S
RECURSIVE Ate(_, _)
Ate(S, n) == IF n = 0 THEN S
             ELSE LET R == Ate(S, n - 1) IN R \cup UNION {Sucessores(t) : t \in R}

\* o Lo Shu embaralhado por no maximo MaxScramble movimentos do 9
Embaralhados == Ate({LoShu}, MaxScramble)

\* tabelas com um unico 9 e pecas repetidas: oito 1 (espaco alcancavel de 9
\* estados), ou o 9 no centro, sete 1 e um 2 (72 estados); nenhum objetivo
\* e' alcancavel a partir delas
PoucasPecas ==
    {t \in [Idx -> [Idx -> {1, 2, 9}]] :
        /\ Cardinality({k \in DOMAIN Iter(t) : Iter(t)[k] = 9}) = 1
        /\ \/ \A k \in DOMAIN Iter(t) : Iter(t)[k] # 2
           \/ /\ t[1][1] = 9
              /\ Cardinality({k \in DOMAIN Iter(t) : Iter(t)[k] = 2}) = 1}

\* tabela com um unico 9 em que linhas e colunas somam 15 e as diagonais nao
SemiMagico == Tab(<< <<9, 3, 3>>, <<3, 6, 6>>, <<3, 6, 6>> >>)

Inicios == {EstadoInicial} \cup Magicos \cup Embaralhados \cup PoucasPecas
             \cup {SemiMagico}

Modos == {"largura", "profundidade", "outra"}

-----------------------------------------------------------------------------
(* Busca *)

NENHUM == [nenhum |-> TRUE, caminho |-> << >>]

SemExecucao ==
    [valida |-> FALSE, tipo_busca |-> "", mostrar |-> FALSE,
     visitados |-> << >>, resultado |-> NENHUM, rotulos |-> << >>,
     borda |-> << >>, explorado |-> {}, saida |-> << >>]

\* Busca.__init__
Init ==
    /\ inicio \in Inicios
    /\ pc = "ocioso"
    /\ tipo_busca = ""
    /\ mostrar = FALSE
    /\ nodos = << >>
    /\ borda = << >>
    /\ explorado = {}
    /\ nodo_atual = 0
    /\ resultado = NENHUM
    /\ saida = << >>
    /\ visitados = << >>
    /\ anterior = SemExecucao

-----------------------------------------------------------------------------
(* Busca.buscar *)

\* print(*(tabela), sep="\n"): cada linha como lista Python
StrLinha(lin) ==
    "[" \o str_int(lin[0]) \o ", " \o str_int(lin[1]) \o ", "
        \o str_int(lin[2]) \o "]"

StrTabela(tabela) ==
    StrLinha(tabela[0]) \o "\n" \o StrLinha(tabela[1]) \o "\n"
        \o StrLinha(tabela[2]) \o "\n"

\* as duas chamadas a print feitas por iteracao quando mostrar e' verdadeiro
Mostrar(m, sd, tabela) ==
    IF m THEN sd \o << StrTabela(tabela), "\n\n" >> ELSE sd

\* variante de Expandir que acrescenta a chave a explorado antes de testar
\* se ela ja' la' esta'
RECURSIVE ExpandirMarcaAntes(_, _, _, _, _, _)
ExpandirMarcaAntes(movs, k, pai, nd, bd, ex) ==
    IF k > Len(movs) THEN [nodos |-> nd, borda |-> bd, explorado |-> ex]
    ELSE LET adjacente == Nodo(mover(nd[pai].estado, movs[k].origem,
                                     movs[k].destino), pai, movs[k].acao)
             nd1 == Append(nd, adjacente)
             ex1 == ex \cup {str(adjacente.estado)}
         IN  IF str(adjacente.estado) \notin ex1
             THEN ExpandirMarcaAntes(movs, k + 1, pai, nd1,
                                     Append(bd, Len(nd1)), ex1)
             ELSE ExpandirMarcaAntes(movs, k + 1, pai, nd1, bd, ex1)

\* variante de Expandir sem explorado.add: a chave do adjacente nunca e'
\* marcada
RECURSIVE ExpandirSemMarca(_, _, _, _, _, _)
ExpandirSemMarca(movs, k, pai, nd, bd, ex) ==
    IF k > Len(movs) THEN [nodos |-> nd, borda |-> bd, explorado |-> ex]
    ELSE LET adjacente == Nodo(mover(nd[pai].estado, movs[k].origem,
                                     movs[k].destino), pai, movs[k].acao)
             nd1 == Append(nd, adjacente)
         IN  IF str(adjacente.estado) \notin ex
             THEN ExpandirSemMarca(movs, k + 1, pai, nd1,
                                   Append(bd, Len(nd1)), ex)
             ELSE ExpandirSemMarca(movs, k + 1, pai, nd1, bd, ex)

\* variante de Expandir sem o teste `not in explorado`: todo adjacente entra
\* na borda
RECURSIVE ExpandirSemTeste(_, _, _, _, _, _)
ExpandirSemTeste(movs, k, pai, nd, bd, ex) ==
    IF k > Len(movs) THEN [nodos |-> nd, borda |-> bd, explorado |-> ex]
    ELSE LET adjacente == Nodo(mover(nd[pai].estado, movs[k].origem,
                                     movs[k].destino), pai, movs[k].acao)
             nd1 == Append(nd, adjacente)
         IN  ExpandirSemTeste(movs, k + 1, pai, nd1, Append(bd, Len(nd1)),
                              ex \cup {str(adjacente.estado)})

\* variante de Expandir que poe o Nodo adjacente na frente da borda
\* (appendleft em vez de append)
RECURSIVE ExpandirNaFrente(_, _, _, _, _, _)
ExpandirNaFrente(movs, k, pai, nd, bd, ex) ==
    IF k > Len(movs) THEN [nodos |-> nd, borda |-> bd, explorado |-> ex]
    ELSE LET adjacente == Nodo(mover(nd[pai].estado, movs[k].origem,
                                     movs[k].destino), pai, movs[k].acao)
             nd1 == Append(nd, adjacente)
         IN  IF str(adjacente.estado) \notin ex
             THEN ExpandirNaFrente(movs, k + 1, pai, nd1, <<Len(nd1)>> \o bd,
                                   ex \cup {str(adjacente.estado)})
             ELSE ExpandirNaFrente(movs, k + 1, pai, nd1, bd, ex)

\* variante de Expandir em que o pai do Nodo adjacente e' o ultimo Nodo
\* construido, e nao o nodo em expansao
RECURSIVE ExpandirPaiErrado(_, _, _, _, _, _)
ExpandirPaiErrado(movs, k, pai, nd, bd, ex) ==
    IF k > Len(movs) THEN [nodos |-> nd, borda |-> bd, explorado |-> ex]
    ELSE LET adjacente == Nodo(mover(nd[pai].estado, movs[k].origem,
                                     movs[k].destino), Len(nd), movs[k].acao)
             nd1 == Append(nd, adjacente)
         IN  IF str(adjacente.estado) \notin ex
             THEN ExpandirPaiErrado(movs, k + 1, pai, nd1, Append(bd, Len(nd1)),
                                    ex \cup {str(adjacente.estado)})
             ELSE ExpandirPaiErrado(movs, k + 1, pai, nd1, bd, ex)

\* o laco `for movimento, acao in sorted(...)`: a partir do k-esimo movimento,
\* constroi o Nodo adjacente e, se a chave do seu estado nao esta' em
\* explorado, acrescenta-o a' borda e a chave a explorado
RECURSIVE Expandir(_, _, _, _, _, _)
Expandir(movs, k, pai, nd, bd, ex) ==
    IF k > Len(movs) THEN [nodos |-> nd, borda |-> bd, explorado |-> ex]
    ELSE LET adjacente == Nodo(mover(nd[pai].estado, movs[k].origem,
                                     movs[k].destino), pai, movs[k].acao)
             nd1 == Append(nd, adjacente)
         IN  IF str(adjacente.estado) \notin ex
             THEN Expandir(movs, k + 1, pai, nd1, Append(bd, Len(nd1)),
                           ex \cup {str(adjacente.estado)})
             ELSE Expandir(movs, k + 1, pai, nd1, bd, ex)

\* o que a execucao que terminou deixou: ordem de visita, caminho devolvido
\* (estados e acoes), borda e explorado finais, e o que foi impresso
Registro ==
    [valida |-> TRUE, tipo_busca |-> tipo_busca, mostrar |-> mostrar,
     visitados |-> visitados, resultado |-> resultado,
     rotulos |-> [k \in 1 .. Len(resultado.caminho) |->
                    [estado |-> nodos[resultado.caminho[k]].estado,
                     acao |-> nodos[resultado.caminho[k]].acao]],
     borda |-> [k \in 1 .. Len(borda) |-> nodos[borda[k]].estado],
     explorado |-> explorado, saida |-> saida]

\* variante em que a chave do estado inicial nao e' acrescentada a explorado
ExploradoVazio(nd, bd, ex) == {}

\* variante em que explorado nao e' recriado a cada chamada: as chaves da
\* execucao anterior permanecem
ExploradoPersistente(nd, bd, ex) == ex \cup {str(nd[bd[1]].estado)}

\* explorado = set(); explorado.add(str(borda[0].estado))
ExploradoInicial(nd, bd, ex) == {str(nd[bd[1]].estado)}

\* chamada a buscar: borda com o Nodo do inicio, explorado com a sua chave,
\* e o cabecalho impresso quando mostrar e' verdadeiro
Buscar(t, m) ==
    /\ pc \in {"ocioso", "retornou"}
    /\ tipo_busca' = t
    /\ mostrar' = m
    /\ nodos' = << NodoRaiz(inicio) >>
    /\ borda' = << 1 >>
    /\ explorado' = ExploradoInicial(nodos', borda', explorado)
    /\ saida' = IF m THEN << "Ordem de visita dos estados:\n\n" >> ELSE << >>
    /\ nodo_atual' = 0
    /\ resultado' = NENHUM
    /\ visitados' = << >>
    /\ anterior' = IF pc = "retornou" THEN Registro ELSE anterior
    /\ pc' = "enquanto"
    /\ UNCHANGED inicio

\* variante de Iteracao em que o teste de objetivo ficou dentro do bloco
\* `if mostrar`
IteracaoObjetivoSoSeMostrar(n, resto, movs) ==
    /\ nodo_atual' = n
    /\ visitados' = Append(visitados, nodos[n].estado)
    /\ saida' = Mostrar(mostrar, saida, nodos[n].estado)
    /\ IF mostrar /\ objetivo(nodos[n].estado)
       THEN /\ resultado' = [nenhum |-> FALSE, caminho |-> caminho_(nodos, n)]
            /\ pc' = "retornou"
            /\ borda' = resto
            /\ UNCHANGED <<nodos, explorado>>
       ELSE LET e == Expandir(movs, 1, n, nodos, resto, explorado)
            IN  /\ nodos' = e.nodos
                /\ borda' = e.borda
                /\ explorado' = e.explorado
                /\ UNCHANGED <<resultado, pc>>
    /\ UNCHANGED <<inicio, tipo_busca, mostrar, anterior>>

\* variante de Iteracao que marca a chave quando o nodo e' retirado da borda
\* (na expansao), e nao quando o adjacente e' gerado
IteracaoMarcaNaExpansao(n, resto, movs) ==
    /\ nodo_atual' = n
    /\ visitados' = Append(visitados, nodos[n].estado)
    /\ saida' = Mostrar(mostrar, saida, nodos[n].estado)
    /\ IF objetivo(nodos[n].estado)
       THEN /\ resultado' = [nenhum |-> FALSE, caminho |-> caminho_(nodos, n)]
            /\ pc' = "retornou"
            /\ borda' = resto
            /\ UNCHANGED <<nodos, explorado>>
       ELSE LET e == ExpandirSemMarca(movs, 1, n, nodos, resto,
                                      explorado \cup {str(nodos[n].estado)})
            IN  /\ nodos' = e.nodos
                /\ borda' = e.borda
                /\ explorado' = e.explorado
                /\ UNCHANGED <<resultado, pc>>
    /\ UNCHANGED <<inicio, tipo_busca, mostrar, anterior>>

\* uma iteracao do laco: o nodo n foi retirado e a borda ficou em `resto`
Iteracao(n, resto, movs) ==
    /\ nodo_atual' = n
    /\ visitados' = Append(visitados, nodos[n].estado)
    /\ saida' = Mostrar(mostrar, saida, nodos[n].estado)
    /\ IF objetivo(nodos[n].estado)
       THEN /\ resultado' = [nenhum |-> FALSE, caminho |-> caminho_(nodos, n)]
            /\ pc' = "retornou"
            /\ borda' = resto
            /\ UNCHANGED <<nodos, explorado>>
       ELSE LET e == Expandir(movs, 1, n, nodos, resto, explorado)
            IN  /\ nodos' = e.nodos
                /\ borda' = e.borda
                /\ explorado' = e.explorado
                /\ UNCHANGED <<resultado, pc>>
    /\ UNCHANGED <<inicio, tipo_busca, mostrar, anterior>>

\* variante da busca em largura que retira o nodo do fim da borda (pop)
IteracaoLarguraPop ==
    /\ pc = "enquanto"
    /\ tipo_busca = "largura"
    /\ borda # << >>
    /\ Len(visitados) < MaxPops
    /\ Iteracao(borda[Len(borda)], SubSeq(borda, 1, Len(borda) - 1),
                sorted(acoes(nodos[borda[Len(borda)]].estado)))

\* variante em que a busca em largura e' o ramo de todo tipo_busca que nao
\* seja 'profundidade'
IteracaoLarguraSenao ==
    /\ pc = "enquanto"
    /\ tipo_busca # "profundidade"
    /\ borda # << >>
    /\ Len(visitados) < MaxPops
    /\ Iteracao(Head(borda), Tail(borda),
                sorted(acoes(nodos[Head(borda)].estado)))

\* busca em largura: borda.popleft() e acoes em ordem crescente
IteracaoLargura ==
    /\ pc = "enquanto"
    /\ tipo_busca = "largura"
    /\ borda # << >>
    /\ Len(visitados) < MaxPops
    /\ Iteracao(Head(borda), Tail(borda),
                sorted(acoes(nodos[Head(borda)].estado)))

\* busca em profundidade: borda.pop() e acoes em ordem decrescente
IteracaoProfundidade ==
    /\ pc = "enquanto"
    /\ tipo_busca = "profundidade"
    /\ borda # << >>
    /\ Len(visitados) < MaxPops
    /\ Iteracao(borda[Len(borda)], SubSeq(borda, 1, Len(borda) - 1),
                sorted_reverse(acoes(nodos[borda[Len(borda)]].estado)))

\* `while borda` falso: a funcao termina sem return (devolve None)
BordaEsgotada ==
    /\ pc = "enquanto"
    /\ tipo_busca \in {"largura", "profundidade"}
    /\ borda = << >>
    /\ pc' = "retornou"
    /\ resultado' = NENHUM
    /\ UNCHANGED <<inicio, tipo_busca, mostrar, nodos, borda, explorado,
                   nodo_atual, saida, visitados, anterior>>

\* tipo_busca nao e' 'largura' nem 'profundidade': nenhum ramo e' executado
ModoDesconhecido ==
    /\ pc = "enquanto"
    /\ tipo_busca \notin {"largura", "profundidade"}
    /\ pc' = "retornou"
    /\ resultado' = NENHUM
    /\ UNCHANGED <<inicio, tipo_busca, mostrar, nodos, borda, explorado,
                   nodo_atual, saida, visitados, anterior>>

Next ==
    \/ \E t \in Modos, m \in BOOLEAN : Buscar(t, m)
    \/ IteracaoLargura
    \/ IteracaoProfundidade
    \/ BordaEsgotada
    \/ ModoDesconhecido

Spec == Init /\ [][Next]_vars

TypeOK ==
    /\ pc \in {"ocioso", "enquanto", "retornou"}
    /\ \A k \in 1 .. Len(borda) : borda[k] \in 1 .. Len(nodos)

-----------------------------------------------------------------------------
(* Alcancabilidade no grafo induzido por acoes *)

\* numero minimo de acoes de algum estado de `novos` (ja' a d acoes do
\* inicio) ate' um objetivo, por niveis; -1 se nenhum objetivo e' alcancavel
RECURSIVE DistanciaDesde(_, _, _)
DistanciaDesde(visto, novos, d) ==
    IF \E t \in novos : objetivo(t) THEN d
    ELSE IF novos = {} THEN -1
    ELSE DistanciaDesde(visto \cup novos,
                        (UNION {Sucessores(t) : t \in novos}) \ (visto \cup novos),
                        d + 1)

Distancia(t) == DistanciaDesde({}, {t}, 0)

\* todos os estados alcancaveis a partir de `novos`
RECURSIVE Fecho(_, _)
Fecho(visto, novos) ==
    IF novos = {} THEN visto
    ELSE Fecho(visto \cup novos,
               (UNION {Sucessores(t) : t \in novos}) \ (visto \cup novos))

\* as duas funcoes acima, tabeladas para os estados iniciais do modelo
TabelaDistancia == {<<t, Distancia(t)>> : t \in Inicios}

DistanciaDe(t) == (CHOOSE r \in TabelaDistancia : r[1] = t)[2]

TabelaAlcancaveis ==
    {<<r[1], Cardinality(Fecho({}, {r[1]}))>> :
        r \in {q \in TabelaDistancia : q[2] < 0}}

NumAlcancaveis(t) == (CHOOSE r \in TabelaAlcancaveis : r[1] = t)[2]

Retornou(t) == pc = "retornou" /\ tipo_busca = t

EstadoDe(n) == nodos[n].estado

-----------------------------------------------------------------------------
(* C1 *)

\* C1: em 'largura', o caminho devolvido tem o numero minimo de acoes entre
\* todos os caminhos do inicio a algum objetivo; em particular nunca e' mais
\* longo do que o caminho que 'profundidade' devolve a partir do mesmo inicio.
C1_LarguraMinima ==
    /\ (Retornou("largura") /\ ~resultado.nenhum) =>
          /\ Len(resultado.caminho) - 1 = DistanciaDe(inicio)
          /\ (anterior.valida /\ anterior.tipo_busca = "profundidade"
                /\ ~anterior.resultado.nenhum)
               => Len(resultado.caminho) <= Len(anterior.rotulos)
    /\ (Retornou("profundidade") /\ ~resultado.nenhum /\ anterior.valida
          /\ anterior.tipo_busca = "largura" /\ ~anterior.resultado.nenhum)
         => Len(anterior.rotulos) <= Len(resultado.caminho)

\* testemunha de C1: largura devolve um caminho de duas acoes depois de
\* profundidade ter devolvido um caminho mais longo
C1_Testemunha ==
    /\ Retornou("largura")
    /\ ~resultado.nenhum
    /\ Len(resultado.caminho) = 3
    /\ anterior.valida
    /\ anterior.tipo_busca = "profundidade"
    /\ Len(anterior.rotulos) > 3

-----------------------------------------------------------------------------
(* C2 *)

\* os indices das acoes de `de` cujo resultado e' o estado `para`
AcoesQueLevam(de, para) ==
    {k \in 1 .. Len(acoes(de)) :
        mover(de, acoes(de)[k].origem, acoes(de)[k].destino) = para}

\* C2: no caminho devolvido [n0..nk], n0 guarda o estado inicial com a acao
\* "Z"; cada n_i (i>0) e' o resultado de exatamente uma acao de acoes do estado
\* de n_{i-1}, e n_i.acao e' o rotulo dessa acao; so' n_k satisfaz o objetivo.
C2_CaminhoValido ==
    (pc = "retornou" /\ ~resultado.nenhum) =>
        LET p == resultado.caminho
        IN  /\ Len(p) >= 1
            /\ EstadoDe(p[1]) = inicio
            /\ nodos[p[1]].acao = "Z"
            /\ nodos[p[1]].pai = 0
            /\ \A i \in 2 .. Len(p) :
                  LET K == AcoesQueLevam(EstadoDe(p[i - 1]), EstadoDe(p[i]))
                  IN  /\ nodos[p[i]].pai = p[i - 1]
                      /\ Cardinality(K) = 1
                      /\ \A k \in K :
                            acoes(EstadoDe(p[i - 1]))[k].acao = nodos[p[i]].acao
            /\ \A i \in 1 .. Len(p) : objetivo(EstadoDe(p[i])) <=> i = Len(p)

\* testemunha de C2: profundidade devolveu um caminho com mais de tres nodos
C2_Testemunha ==
    /\ Retornou("profundidade")
    /\ ~resultado.nenhum
    /\ Len(resultado.caminho) > 3

-----------------------------------------------------------------------------
(* C3 *)

Reconhecido == tipo_busca \in {"largura", "profundidade"}

Ultimo(sq) == sq[Len(sq)]

\* C3: nos dois modos, se algum objetivo e' alcancavel a partir do inicio,
\* a borda nao se esgota e buscar devolve um caminho que termina num
\* objetivo, e nao None.
C3_Completa ==
    /\ (pc = "enquanto" /\ Reconhecido /\ borda = << >>)
         => DistanciaDe(inicio) < 0
    /\ (pc = "retornou" /\ Reconhecido /\ resultado.nenhum)
         => DistanciaDe(inicio) < 0
    /\ (pc = "retornou" /\ Reconhecido /\ ~resultado.nenhum)
         => objetivo(EstadoDe(Ultimo(resultado.caminho)))

\* testemunha de C3: profundidade encontrou, ao fim de mais de vinte
\* iteracoes, um objetivo que esta' a duas acoes do inicio
C3_Testemunha ==
    /\ Retornou("profundidade")
    /\ ~resultado.nenhum
    /\ Len(visitados) > 20
    /\ DistanciaDe(inicio) = 2

-----------------------------------------------------------------------------
(* C4 *)

\* C4: quando nenhum objetivo e' alcancavel, buscar (nos dois modos) retira
\* no maximo um nodo por estado alcancavel, esvazia a borda e devolve None;
\* nunca devolve um caminho.
C4_SemSolucao ==
    (pc # "ocioso" /\ Reconhecido /\ DistanciaDe(inicio) < 0) =>
        /\ Len(visitados) <= NumAlcancaveis(inicio)
        /\ pc = "retornou" => (resultado.nenhum /\ borda = << >>)

\* testemunha de C4: largura esgotou um espaco de 72 estados e devolveu None
C4_Testemunha ==
    /\ Retornou("largura")
    /\ resultado.nenhum
    /\ borda = << >>
    /\ Len(visitados) = 72
    /\ DistanciaDe(inicio) < 0

-----------------------------------------------------------------------------
(* C5 *)

RECURSIVE Fatorial(_)
Fatorial(n) == IF n <= 1 THEN 1 ELSE n * Fatorial(n - 1)

\* as chaves possiveis sao arranjos das tamanho*tamanho pecas do inicio
NumChaves == Fatorial(tamanho * tamanho)

Vezes(t, v) == Cardinality({k \in DOMAIN Iter(t) : Iter(t)[k] = v})

\* t e u tem as mesmas pecas, com as mesmas repeticoes
Rearranjo(t, u) ==
    \A v \in {Iter(t)[k] : k \in DOMAIN Iter(t)}
               \cup {Iter(u)[k] : k \in DOMAIN Iter(u)} :
        Vezes(t, v) = Vezes(u, v)

\* medida que decresce a cada iteracao do laco
Variante == 2 * (NumChaves - Cardinality(explorado)) + Len(borda)

PassoDoLaco == pc = "enquanto" /\ Len(visitados') = Len(visitados) + 1

NodosNovos == {nodos'[k] : k \in (Len(nodos) + 1) .. Len(nodos')}

\* C5: o laco termina nos dois modos: cada iteracao retira um nodo da borda,
\* cada nodo acrescentado a' borda acrescenta uma chave nova a explorado, as
\* chaves sao arranjos das pecas do inicio (finitas), e portanto a execucao
\* chega a um objetivo ou a' borda vazia (ou ao limite de iteracoes do modelo).
C5_Termina ==
    /\ [](Variante >= 0)
    /\ [][PassoDoLaco =>
            /\ explorado \subseteq explorado'
            /\ Len(borda') - (Len(borda) - 1)
                 = Cardinality(explorado') - Cardinality(explorado)
            /\ \A nd \in NodosNovos : Rearranjo(nd.estado, inicio)
            /\ (explorado' \ explorado)
                 \subseteq {str(nd.estado) : nd \in NodosNovos}
            /\ Variante' < Variante]_vars

\* testemunha de C5: profundidade esvaziou a borda ao fim de 72 iteracoes
C5_Testemunha ==
    /\ Retornou("profundidade")
    /\ resultado.nenhum
    /\ borda = << >>
    /\ Len(visitados) = 72

-----------------------------------------------------------------------------
(* C6 *)

ChavesBorda == {str(EstadoDe(borda[k])) : k \in 1 .. Len(borda)}

ChavesVisitados == {str(visitados[k]) : k \in 1 .. Len(visitados)}

EntradasNovas == {borda'[k] : k \in 1 .. Len(borda')} \ {borda[k] : k \in 1 .. Len(borda)}

\* C6: nenhuma chave entra na borda mais de uma vez: as chaves dos nodos da
\* borda sao distintas entre si e das chaves dos nodos ja' retirados; os
\* estados da borda sao alcancaveis a partir do inicio (cada nodo acrescentado
\* e' sucessor do nodo retirado), e portanto o comprimento da borda nao excede
\* o numero de estados alcancaveis.
C6_SemRepeticao ==
    /\ [](/\ Cardinality(ChavesBorda \cup ChavesVisitados)
               = Len(borda) + Len(visitados)
          /\ (pc # "ocioso" /\ DistanciaDe(inicio) < 0)
               => Len(borda) + Len(visitados) <= NumAlcancaveis(inicio))
    /\ [][/\ (pc # "enquanto" /\ pc' = "enquanto")
               => (Len(borda') = 1 /\ nodos'[borda'[1]].estado = inicio)
          /\ PassoDoLaco =>
               \A n \in EntradasNovas :
                   /\ nodos'[n].pai = nodo_atual'
                   /\ nodos'[n].estado \in Sucessores(visitados'[Len(visitados')])]_vars

\* testemunha de C6: borda com pelo menos cinco nodos, dez nodos ja' retirados
\* e algum adjacente recusado por ter chave ja' explorada
C6_Testemunha ==
    /\ pc = "enquanto"
    /\ Len(borda) >= 5
    /\ Len(visitados) >= 10
    /\ Len(nodos) > Len(borda) + Len(visitados)

-----------------------------------------------------------------------------
(* C7 *)

\* C7 (enunciado original): o numero de chaves distintas em explorado e'
\* igual ao numero de objetos Nodo construidos.
C7_Original == Cardinality(explorado) = Len(nodos)

\* C7 (emendado): o numero de chaves distintas em explorado e' igual ao
\* numero de Nodos que entraram na borda (a raiz incluida), e explorado e'
\* exatamente o conjunto das chaves desses Nodos; os Nodos construidos para
\* chaves ja' exploradas sao descartados, e por isso o numero de Nodos
\* construidos pode ser maior.
C7_UmNodoPorChave ==
    /\ Cardinality(explorado) = Len(borda) + Len(visitados)
    /\ explorado = ChavesBorda \cup ChavesVisitados
    /\ Cardinality(explorado) <= Len(nodos)

\* testemunha de C7: mais Nodos construidos do que chaves exploradas
C7_Testemunha ==
    /\ pc = "enquanto"
    /\ Len(visitados) >= 5
    /\ Len(nodos) > Cardinality(explorado)
    /\ Cardinality(explorado) = Len(borda) + Len(visitados)

-----------------------------------------------------------------------------
(* C8 *)

Prefixo(sq, tq) == Len(sq) <= Len(tq) /\ \A k \in 1 .. Len(sq) : sq[k] = tq[k]

\* as acoes ao longo do caminho devolvido pela execucao corrente
Rotulos == [k \in 1 .. Len(resultado.caminho) |-> nodos[resultado.caminho[k]].acao]

RotulosAnteriores == [k \in 1 .. Len(anterior.rotulos) |-> anterior.rotulos[k].acao]

MesmaChamada ==
    /\ anterior.valida
    /\ anterior.tipo_busca = tipo_busca
    /\ anterior.mostrar = mostrar

-----------------------------------------------------------------------------
(* C9 *)

\* as tres linhas, as tres colunas e as duas diagonais somam 15
TudoSomaQuinze(t) ==
    /\ \A i \in Idx : t[i][0] + t[i][1] + t[i][2] = 15
    /\ \A j \in Idx : t[0][j] + t[1][j] + t[2][j] = 15
    /\ t[0][0] + t[1][1] + t[2][2] = 15
    /\ t[0][2] + t[1][1] + t[2][0] = 15

\* C9: a busca em largura a partir de [[6,9,8],[7,1,3],[2,5,4]] devolve (sem
\* esgotar a borda nem atingir o limite de iteracoes) um caminho nao vazio
\* cujo estado final tem linhas, colunas e diagonais de soma 15.
C9_Concreto ==
    (inicio = EstadoInicial /\ tipo_busca = "largura") =>
        /\ pc = "enquanto" => (borda # << >> /\ Len(visitados) < MaxPops)
        /\ pc = "retornou" =>
              /\ ~resultado.nenhum
              /\ Len(resultado.caminho) >= 1
              /\ TudoSomaQuinze(EstadoDe(Ultimo(resultado.caminho)))

\* testemunha de C9: a busca em largura a partir do estado de main devolveu
\* um caminho
C9_Testemunha ==
    /\ inicio = EstadoInicial
    /\ Retornou("largura")
    /\ ~resultado.nenhum
    /\ Len(resultado.caminho) = 3

-----------------------------------------------------------------------------
(* C10 *)

BordaEstados == [k \in 1 .. Len(borda) |-> EstadoDe(borda[k])]

CaminhoRotulado ==
    [k \in 1 .. Len(resultado.caminho) |->
        [estado |-> EstadoDe(resultado.caminho[k]),
         acao |-> nodos[resultado.caminho[k]].acao]]

SoMostrarDifere ==
    /\ anterior.valida
    /\ anterior.tipo_busca = tipo_busca
    /\ anterior.mostrar # mostrar

\* C10: mostrar nao influi na busca: com o mesmo inicio e o mesmo modo, a
\* execucao com mostrar e a execucao sem mostrar retiram a mesma sequencia de
\* nodos, terminam com a mesma borda e o mesmo explorado e devolvem o mesmo
\* caminho; a tabela do nodo e' impressa exatamente uma vez por nodo retirado.
C10_MostrarNaoInflui ==
    /\ (pc # "ocioso" /\ ~mostrar) => saida = << >>
    /\ (pc # "ocioso" /\ mostrar) =>
          /\ Len(saida) = 1 + 2 * Len(visitados)
          /\ \A k \in 1 .. Len(visitados) : saida[2 * k] = StrTabela(visitados[k])
    /\ (pc # "ocioso" /\ SoMostrarDifere) =>
          /\ Prefixo(visitados, anterior.visitados)
          /\ pc = "retornou" =>
                /\ visitados = anterior.visitados
                /\ BordaEstados = anterior.borda
                /\ explorado = anterior.explorado
                /\ resultado.nenhum = anterior.resultado.nenhum
                /\ CaminhoRotulado = anterior.rotulos

\* testemunha de C10: largura com mostrar devolveu um caminho depois de a
\* mesma busca sem mostrar ter terminado
C10_Testemunha ==
    /\ Retornou("largura")
    /\ mostrar
    /\ SoMostrarDifere
    /\ ~resultado.nenhum
    /\ Len(visitados) >= 5
    /\ Len(saida) = 1 + 2 * Len(visitados)

-----------------------------------------------------------------------------
(* C11 *)

\* os filhos do nodo p que estao na borda
FilhosNaBorda(p) == {borda[k] : k \in 1 .. Len(borda)} \cap
                      {n \in 1 .. Len(nodos) : nodos[n].pai = p}

\* C11: nos dois modos a acao preferida e' explorada primeiro: quando um nodo
\* e' retirado da borda, todo irmao seu que ainda esta' na borda vem de uma
\* acao de numero de prioridade maior (os irmaos saem em ordem crescente);
\* em 'profundidade', se o nodo expandido na iteracao anterior deixou filhos
\* na borda, o proximo nodo retirado e' o filho de menor numero.
C11_PreferidaPrimeiro ==
    [][PassoDoLaco =>
         /\ \A m \in FilhosNaBorda(nodos[nodo_atual'].pai) :
               (m # nodo_atual' /\ nodo_atual' # 1)
                 => Prioridade(nodos[nodo_atual'].acao) < Prioridade(nodos[m].acao)
         /\ (tipo_busca = "profundidade" /\ nodo_atual # 0
               /\ FilhosNaBorda(nodo_atual) # {})
              => nodo_atual' \in FilhosNaBorda(nodo_atual)]_vars

\* testemunha de C11: em profundidade foi retirado um filho cujo pai deixou
\* pelo menos dois outros filhos na borda
C11_Testemunha ==
    /\ pc = "enquanto"
    /\ tipo_busca = "profundidade"
    /\ nodo_atual > 1
    /\ Cardinality(FilhosNaBorda(nodos[nodo_atual].pai)) >= 2

-----------------------------------------------------------------------------
(* C12 *)

\* C12: em todo estado de uma execucao de buscar, explorado contem a chave do
\* estado inicial (desde a inicializacao, antes de qualquer retirada), a chave
\* de todo nodo da borda e de todo nodo ja' retirado, e so' cresce: nenhum
\* passo da execucao lhe retira uma chave.
C12_ExploradoCresce ==
    /\ [](pc # "ocioso" =>
            /\ str(inicio) \in explorado
            /\ ChavesBorda \subseteq explorado
            /\ ChavesVisitados \subseteq explorado)
    /\ [][pc = "enquanto" => explorado \subseteq explorado']_vars

\* testemunha de C12: execucao em curso com nodos retirados, nodos na borda e
\* chaves acrescentadas depois da inicializacao
C12_Testemunha ==
    /\ pc = "enquanto"
    /\ Len(visitados) >= 3
    /\ Len(borda) >= 2
    /\ Cardinality(explorado) >= 6
    /\ str(inicio) \in explorado

-----------------------------------------------------------------------------
(* C13 *)

\* as linhas das tabelas de todos os Nodos construidos, na ordem da arena
Memoria(nd) == << >> \o [a \in 1 .. (tamanho * Len(nd)) |->
                          nd[((a - 1) \div tamanho) + 1].estado[(a - 1) % tamanho]]

\* a lista externa da tabela do Nodo n nessa memoria
Objeto(n) == [i \in Idx |-> tamanho * (n - 1) + i + 1]

EnderecosDe(obj) == {obj[i] : i \in Idx}

\* C13: aplicar uma acao (mover) a uma tabela deixa a tabela de origem como
\* estava e devolve uma tabela nova que nao partilha linha alguma com a origem;
\* por isso o estado guardado por um Nodo ja' construido (na borda ou num
\* caminho) nao e' alterado pelas expansoes seguintes.
C13_OrigemIntacta ==
    /\ [](( /\ pc = "enquanto"
            /\ nodo_atual # 0
            /\ ~objetivo(EstadoDe(nodo_atual)) ) =>
          LET movs  == acoes(EstadoDe(nodo_atual))
              base  == Len(nodos) - Len(movs)
              mem   == Memoria(SubSeq(nodos, 1, base))
              obj   == Objeto(nodo_atual)
          IN  /\ Valor(mem, obj) = EstadoDe(nodo_atual)
              /\ \A k \in 1 .. Len(movs) :
                   LET r == moverObj(mem, obj, movs[k].origem, movs[k].destino)
                   IN  /\ SubSeq(r.mem, 1, Len(mem)) = mem
                       /\ EnderecosDe(r.obj) \cap (1 .. Len(mem)) = {}
                       /\ Cardinality(EnderecosDe(r.obj)) = tamanho
                       /\ Valor(r.mem, r.obj) # EstadoDe(nodo_atual)
                       /\ \E m \in (base + 1) .. Len(nodos) :
                             nodos[m].estado = Valor(r.mem, r.obj))
    /\ [][PassoDoLaco => \A k \in 1 .. Len(nodos) : nodos'[k] = nodos[k]]_vars

\* testemunha de C13: ja' houve expansoes e restam na borda Nodos construidos
\* por expansoes anteriores
C13_Testemunha ==
    /\ pc = "enquanto"
    /\ Len(visitados) >= 2
    /\ Len(nodos) >= 5
    /\ \E k \in 1 .. Len(borda) : borda[k] # 1 /\ borda[k] + 2 <= Len(nodos)

-----------------------------------------------------------------------------
(* C14 *)

\* numero de ligacoes pai entre o nodo n e a raiz
RECURSIVE ProfundidadeDe(_)
ProfundidadeDe(n) == IF nodos[n].pai = 0 THEN 0 ELSE 1 + ProfundidadeDe(nodos[n].pai)

\* cam vai da raiz ate' o nodo n, inclusive, seguindo as ligacoes pai
DaRaizAte(cam, n) ==
    /\ Len(cam) = ProfundidadeDe(n) + 1
    /\ nodos[cam[1]].pai = 0
    /\ cam[Len(cam)] = n
    /\ \A k \in 1 .. (Len(cam) - 1) : nodos[cam[k + 1]].pai = cam[k]
    /\ (nodos[n].pai = 0 => cam = <<n>>)

\* C14: caminho_ de um nodo produz os nodos da raiz ate' ele, inclusive: cada
\* nodo produzido e' o pai do seguinte, o ultimo e' o proprio nodo, o numero de
\* nodos e' a profundidade mais um, e um nodo sem pai produz so' a si mesmo.
C14_CaminhoDaRaiz ==
    /\ (nodo_atual # 0 => DaRaizAte(caminho_(nodos, nodo_atual), nodo_atual))
    /\ ((pc = "retornou" /\ ~resultado.nenhum)
          => /\ resultado.caminho = caminho_(nodos, nodo_atual)
             /\ DaRaizAte(resultado.caminho, nodo_atual))

\* testemunha de C14: caminho_ aplicado a um nodo de profundidade >= 3 e
\* devolvido por buscar
C14_Testemunha ==
    /\ pc = "retornou"
    /\ ~resultado.nenhum
    /\ nodo_atual # 0
    /\ ProfundidadeDe(nodo_atual) >= 3
    /\ Len(resultado.caminho) = ProfundidadeDe(nodo_atual) + 1

-----------------------------------------------------------------------------
(* C15 *)

LinhasEColunasQuinze(t) ==
    /\ \A i \in Idx : t[i][0] + t[i][1] + t[i][2] = 15
    /\ \A j \in Idx : t[0][j] + t[1][j] + t[2][j] = 15

\* C15: objetivo e' verdadeiro para uma tabela 3x3 exatamente quando as tres
\* linhas, as tres colunas e as duas diagonais somam 15, e falso caso
\* contrario: o laco continua depois de retirar um nodo so' se alguma dessas
\* somas difere de 15, e buscar devolve um caminho so' se todas valem 15.
C15_ObjetivoExato ==
    nodo_atual # 0 =>
        /\ objetivo(EstadoDe(nodo_atual)) <=> TudoSomaQuinze(EstadoDe(nodo_atual))
        /\ pc = "enquanto" => ~TudoSomaQuinze(EstadoDe(nodo_atual))
        /\ (pc = "retornou" /\ ~resultado.nenhum)
              => TudoSomaQuinze(EstadoDe(nodo_atual))

\* testemunha de C15: objetivo foi avaliado (e deu falso) numa tabela cujas
\* linhas e colunas somam 15 mas cujas diagonais nao
C15_Testemunha ==
    /\ pc = "enquanto"
    /\ nodo_atual # 0
    /\ LinhasEColunasQuinze(EstadoDe(nodo_atual))
    /\ ~TudoSomaQuinze(EstadoDe(nodo_atual))

-----------------------------------------------------------------------------
(* C16 *)

UmSoNove(t) == Vezes(t, 9) = 1

\* C16: para uma tabela com exatamente um 9, os rotulos devolvidos por acoes
\* sao distintos dois a dois; a ordenacao pelo rotulo e' portanto estrita, sem
\* empates, e a ordem de expansao nao depende da ordem em que acoes enumera
\* as celulas.
C16_RotulosDistintos ==
    (nodo_atual # 0 /\ UmSoNove(EstadoDe(nodo_atual))) =>
        LET movs == acoes(EstadoDe(nodo_atual))
            ord  == sorted(movs)
            inv  == sorted_reverse(movs)
        IN  /\ \A k, q \in 1 .. Len(movs) : k # q => movs[k].acao # movs[q].acao
            /\ Len(ord) = Len(movs)
            /\ \A k \in 1 .. (Len(ord) - 1) :
                  Prioridade(ord[k].acao) < Prioridade(ord[k + 1].acao)
            /\ \A k \in 1 .. (Len(inv) - 1) :
                  Prioridade(inv[k].acao) > Prioridade(inv[k + 1].acao)
            /\ sorted(Reverso(movs)) = ord
            /\ sorted_reverse(Reverso(movs)) = inv

\* testemunha de C16: foi expandido um nodo cuja tabela tem um so' 9 e
\* quatro acoes
C16_Testemunha ==
    /\ pc = "enquanto"
    /\ nodo_atual # 0
    /\ UmSoNove(EstadoDe(nodo_atual))
    /\ Len(acoes(EstadoDe(nodo_atual))) = 4
    /\ Len(nodos) >= 5

-----------------------------------------------------------------------------
(* C17 *)

ProfundidadesDaBorda == [k \in 1 .. Len(borda) |-> ProfundidadeDe(borda[k])]

\* C17: na busca em largura, as profundidades dos nodos da borda nao decrescem
\* da frente para o fundo e diferem no maximo de um entre a frente e o fundo;
\* logo os nodos sao retirados em ordem nao decrescente de profundidade.
C17_BordaPorNiveis ==
    /\ []((tipo_busca = "largura" /\ pc = "enquanto") =>
            LET p == ProfundidadesDaBorda
            IN  /\ \A k \in 1 .. (Len(p) - 1) : p[k] <= p[k + 1]
                /\ Len(p) > 0 => p[Len(p)] - p[1] <= 1
                /\ (nodo_atual # 0 /\ Len(p) > 0)
                      => /\ ProfundidadeDe(nodo_atual) <= p[1]
                         /\ p[Len(p)] <= ProfundidadeDe(nodo_atual) + 1)
    /\ [][(tipo_busca = "largura" /\ PassoDoLaco /\ nodo_atual # 0)
            => ProfundidadeDe(nodo_atual) <= ProfundidadeDe(nodo_atual')]_vars

\* testemunha de C17: busca em largura em curso com dois niveis na borda
C17_Testemunha ==
    /\ tipo_busca = "largura"
    /\ pc = "enquanto"
    /\ Len(borda) >= 3
    /\ ProfundidadeDe(borda[1]) >= 2
    /\ ProfundidadeDe(borda[Len(borda)]) = ProfundidadeDe(borda[1]) + 1

-----------------------------------------------------------------------------
(* C18 *)

\* a execucao anterior, de modo reconhecido, esgotou a borda
AnteriorEsgotou ==
    /\ anterior.valida
    /\ anterior.tipo_busca \in {"largura", "profundidade"}
    /\ anterior.borda = << >>
    /\ anterior.resultado.nenhum

\* C18: quando tipo_busca nao e' 'largura' nem 'profundidade', buscar nao
\* retira nem expande nodo algum e devolve None, o mesmo valor que devolve
\* quando a borda se esgota; a chamada nao se distingue pelo resultado de uma
\* busca sem solucao, mesmo quando o estado inicial ja' e' objetivo.
C18_ModoDesconhecido ==
    (~Reconhecido /\ pc # "ocioso") =>
        /\ visitados = << >>
        /\ nodo_atual = 0
        /\ Len(nodos) = 1
        /\ borda = << 1 >>
        /\ explorado = {str(inicio)}
        /\ pc = "retornou" =>
              /\ resultado = NENHUM
              /\ AnteriorEsgotou => resultado = anterior.resultado

\* testemunha de C18: buscar devolveu None para um modo desconhecido a partir
\* de um estado inicial que e' objetivo
C18_Testemunha ==
    /\ pc = "retornou"
    /\ ~Reconhecido
    /\ objetivo(inicio)
    /\ resultado.nenhum

-----------------------------------------------------------------------------
(* C19 *)

Permutacao(t) == \A v \in 1 .. (tamanho * tamanho) : Vezes(t, v) = 1

\* a celula onde esta' o 9
PosicaoDoNove(t) == CHOOSE p \in Idx \X Idx : t[p[1]][p[2]] = 9

\* para onde o rotulo diz que o 9 vai, a partir da celula p
Deslocado(p, acao) == CASE acao = "1 Cima"     -> <<p[1] - 1, p[2]>>
                        [] acao = "2 Baixo"    -> <<p[1] + 1, p[2]>>
                        [] acao = "3 Esquerda" -> <<p[1], p[2] - 1>>
                        [] acao = "4 Direita"  -> <<p[1], p[2] + 1>>

\* C19: a partir de uma permutacao de 1..9, todo estado gerado e' de novo uma
\* permutacao de 1..9 com um so' 9; cada acao troca o 9 com uma celula
\* ortogonalmente vizinha e nao muda nenhuma outra ('1 Cima' leva o 9 uma
\* linha acima, '2 Baixo' uma abaixo, '3 Esquerda' uma coluna a' esquerda,
\* '4 Direita' uma a' direita), e cada estado expandido tem de 2 a 4 acoes.
C19_TrocaComVizinho ==
    [][(PassoDoLaco /\ Permutacao(inicio)) =>
         /\ Permutacao(EstadoDe(nodo_atual'))
         /\ ~objetivo(EstadoDe(nodo_atual'))
               => (Len(nodos') - Len(nodos)) \in 2 .. 4
         /\ (Len(nodos') - Len(nodos)) = Len(acoes(EstadoDe(nodo_atual')))
               \/ objetivo(EstadoDe(nodo_atual'))
         /\ \A m \in NodosNovos :
              LET de   == nodos[m.pai].estado
                  p    == PosicaoDoNove(de)
                  q    == Deslocado(p, m.acao)
              IN  /\ m.pai = nodo_atual'
                  /\ q \in Idx \X Idx
                  /\ Permutacao(m.estado)
                  /\ m.estado[q[1]][q[2]] = 9
                  /\ m.estado[p[1]][p[2]] = de[q[1]][q[2]]
                  /\ \A c \in (Idx \X Idx) \ {p, q} :
                        m.estado[c[1]][c[2]] = de[c[1]][c[2]]]_vars

\* testemunha de C19: a partir de uma permutacao, foi expandido um estado com
\* o 9 no centro (quatro acoes) depois de um com o 9 num canto (duas acoes)
C19_Testemunha ==
    /\ pc = "enquanto"
    /\ Permutacao(inicio)
    /\ nodo_atual # 0
    /\ PosicaoDoNove(EstadoDe(nodo_atual)) = <<1, 1>>
    /\ \E k \in 1 .. Len(visitados) :
          PosicaoDoNove(visitados[k]) \in {0, 2} \X {0, 2}
    /\ Len(nodos) >= 7

====
